---- MODULE Spec2Model ----
(***************************************************************************)
(* Model of relay_controller.py: RelayController (a bank of relays driven  *)
(* through a gpiozero LEDBoard) and CapRelay (named charge/dump/null       *)
(* configurations applied relay by relay).                                 *)
(*                                                                         *)
(* A relay index is zero-based as in the source; board[i] is the is_lit    *)
(* value of LED i (TRUE after .on(), FALSE after .off()).  The relay is    *)
(* closed when the LED is not lit (get_state returns not is_lit).          *)
(***************************************************************************)
EXTENDS Integers, Sequences, FiniteSets, TLC

VARIABLES
    relay_pins,     \* constructor argument relay_pins
    arg_chg,        \* constructor argument chg_config
    arg_dmp,        \* constructor argument dmp_config
    obj,            \* "none" | "constructing" | "ready" | "failed"
    num_relays,     \* self.num_relays
    board,          \* self._board: [0..num_relays-1 -> is_lit], <<>> before it exists
    chg_config,     \* self.chg_config
    dmp_config,     \* self.dmp_config
    null_state,     \* self.null_state
    current_state,  \* self.current_state (Unset before line 88 ran)
    call            \* per thread: the call in progress or the last one finished

vars == <<relay_pins, arg_chg, arg_dmp, obj, num_relays, board,
          chg_config, dmp_config, null_state, current_state, call>>

-----------------------------------------------------------------------------
(* Bounds *)

MaxRelays == 2

Threads == {1, 2}
SeqThreads == {1}

Entries == {0, 1, 2}

-----------------------------------------------------------------------------
(* Strings are sequences of characters so that str.lower() is computed. *)

charge == <<"c", "h", "a", "r", "g", "e">>
dump == <<"d", "u", "m", "p">>
null == <<"n", "u", "l", "l">>
Unset == <<>>

StateNameInputs ==
    { charge,
      <<"C", "h", "A", "r", "g", "E">>,
      dump,
      <<"D", "U", "M", "P">>,
      null,
      <<"b", "o", "g", "u", "s">> }

LowerChar(c) ==
    CASE c = "A" -> "a"
      [] c = "C" -> "c"
      [] c = "D" -> "d"
      [] c = "E" -> "e"
      [] c = "G" -> "g"
      [] c = "H" -> "h"
      [] c = "L" -> "l"
      [] c = "M" -> "m"
      [] c = "N" -> "n"
      [] c = "P" -> "p"
      [] c = "R" -> "r"
      [] c = "U" -> "u"
      [] OTHER -> c

\* the name used as typed
LowerIdentity(s) == s

Lower(s) == [k \in DOMAIN s |-> LowerChar(s[k])]

-----------------------------------------------------------------------------
(* Python lists *)

\* list[i] for a zero-based i
At(list, i) == list[i + 1]

\* [1] * n
Ones(n) == [k \in 1..n |-> 1]

\* [0] * n
Zeros(n) == [k \in 1..n |-> 0]

SeqsUpTo(S, n) == UNION { [1..k -> S] : k \in 0..n }

PinOf(k) == 21 + k

-----------------------------------------------------------------------------
(* gpiozero LEDBoard *)

\* LEDBoard(*relay_pins): initial_value=False, every LED starts not lit
NewBoard(n) == [k \in 0..(n - 1) |-> FALSE]

\* Python sequence indexing: a negative index counts from the end
BoardIndex(b, i) == IF i < 0 THEN Cardinality(DOMAIN b) + i ELSE i

\* indexing outside the board raises IndexError
InBoard(b, i) == BoardIndex(b, i) \in DOMAIN b

LedOn(b, i) == [b EXCEPT ![BoardIndex(b, i)] = TRUE]
LedOff(b, i) == [b EXCEPT ![BoardIndex(b, i)] = FALSE]
IsLit(b, i) == b[BoardIndex(b, i)]

-----------------------------------------------------------------------------
(* RelayController *)

\* the range check without its lower bound
ValidRelayNumberNoLower(relay_num, n) == relay_num < n

ValidRelayNumber(relay_num, n) == 0 <= relay_num /\ relay_num < n

\* close driving the level of open
CloseWriteOn(b, relay_num) == LedOn(b, relay_num)

\* close switching the whole board off (self._board.off())
CloseWriteWholeBoard(b, relay_num) == [k \in DOMAIN b |-> FALSE]

\* close toggling the LED instead of switching it off
CloseWriteToggle(b, relay_num) == [b EXCEPT ![BoardIndex(b, relay_num)] = ~@]

\* open driving the level of close
OpenWriteOff(b, relay_num) == LedOff(b, relay_num)

\* self._board[relay_num].off() in close, .on() in open
CloseWrite(b, relay_num) == LedOff(b, relay_num)
OpenWrite(b, relay_num) == LedOn(b, relay_num)

\* not self._board[relay_num].is_lit
ReadState(b, relay_num) == ~IsLit(b, relay_num)

\* open_all switching the relays' LEDs off
OpenAllWriteOff(b, k) == LedOff(b, k)

\* relay.off() / relay.on() on the k-th relay of the iteration over the board
CloseAllWrite(b, k) == LedOff(b, k)
OpenAllWrite(b, k) == LedOn(b, k)

-----------------------------------------------------------------------------
(* Calls.  A frame holds the call a thread is running (or the last one it  *)
(* finished): op is the public method called, pc the place reached in it,  *)
(* log the relay operations that reached the board so far in this call,    *)
(* pre_board / pre_state the board and current_state when it was entered,  *)
(* trail (of a set_state call) the successful set_state calls, at most two, *)
(* that the caller made directly before this one with nothing in between:  *)
(* for each its normalized name and the board it left.  locked and seq are *)
(* used by the concurrent callers only: whether the caller holds the       *)
(* exclusive lock for the call, and how many set_state calls of other      *)
(* threads had been entered before this one.                               *)

Idle ==
    [op |-> "none", pc |-> "idle", name |-> <<>>, idx |-> 0, i |-> 0,
     config |-> <<>>, log |-> <<>>, pre_board |-> <<>>, pre_state |-> <<>>,
     err |-> "none", ret |-> "none", trail |-> <<>>,
     locked |-> FALSE, seq |-> 0]

Returned(t) == call[t].pc \in {"idle", "done", "raised"}

Enter(op, name, idx, pc) ==
    [Idle EXCEPT !.op = op, !.pc = pc, !.name = name, !.idx = idx,
                 !.pre_board = board, !.pre_state = current_state]

\* an exception leaves the running method; one that leaves __init__ leaves no object
Raise(t, e) ==
    /\ call' = [call EXCEPT ![t].pc = "raised", ![t].err = e]
    /\ obj' = IF call[t].op = "__init__" THEN "failed" ELSE obj

\* the caller may call a method when the object exists and, in the
\* single-threaded program, when no other call is running
MayCall(t) ==
    /\ obj = "ready"
    /\ \A u \in Threads : Returned(u)

-----------------------------------------------------------------------------
(* RelayController.__init__ and CapRelay.__init__ *)

Init ==
    /\ \E n \in 0..MaxRelays : relay_pins = [k \in 1..n |-> PinOf(k)]
    /\ arg_chg \in SeqsUpTo(Entries, MaxRelays)
    /\ arg_dmp \in SeqsUpTo(Entries, MaxRelays)
    /\ obj = "none"
    /\ num_relays = 0
    /\ board = <<>>
    /\ chg_config = <<>>
    /\ dmp_config = <<>>
    /\ null_state = <<>>
    /\ current_state = Unset
    /\ call = [t \in Threads |-> Idle]

\* CapRelay(relay_pins, chg_config, dmp_config) is entered
Construct(t) ==
    /\ obj = "none"
    /\ obj' = "constructing"
    /\ call' = [call EXCEPT ![t] = Enter("__init__", <<>>, 0, "init_board")]
    /\ UNCHANGED <<relay_pins, arg_chg, arg_dmp, num_relays, board,
                   chg_config, dmp_config, null_state, current_state>>

\* lines 12-14, up to the call of open_all on line 16
InitBoard(t) ==
    /\ call[t].pc = "init_board"
    /\ num_relays' = Len(relay_pins)
    /\ board' = NewBoard(Len(relay_pins))
    /\ call' = [call EXCEPT ![t].pc = "open_all", ![t].i = 0]
    /\ UNCHANGED <<relay_pins, arg_chg, arg_dmp, obj,
                   chg_config, dmp_config, null_state, current_state>>

\* the validation without the comparison against relay_pins
ConfigsAgreeNoPins(pins, chg, dmp) == Len(chg) = Len(dmp)

ConfigsAgree(pins, chg, dmp) ==
    /\ Len(chg) = Len(dmp)
    /\ Len(pins) = Len(chg)

\* lines 80-84
InitValidate(t) ==
    /\ call[t].pc = "init_validate"
    /\ IF ConfigsAgree(relay_pins, arg_chg, arg_dmp)
       THEN /\ call' = [call EXCEPT ![t].pc = "init_assign"]
            /\ obj' = obj
       ELSE Raise(t, "ValueError:config")
    /\ UNCHANGED <<relay_pins, arg_chg, arg_dmp, num_relays, board,
                   chg_config, dmp_config, null_state, current_state>>

\* lines 86-90, up to the call of set_state("null") on line 91; the frame's
\* log and pre_board / pre_state are from here on those of that set_state call
InitAssign(t) ==
    /\ call[t].pc = "init_assign"
    /\ chg_config' = arg_chg
    /\ dmp_config' = arg_dmp
    /\ current_state' = null
    /\ null_state' = Zeros(Len(relay_pins))
    /\ call' = [call EXCEPT ![t].pc = "ss_lookup", ![t].name = null,
                            ![t].log = <<>>, ![t].pre_board = board,
                            ![t].pre_state = null]
    /\ UNCHANGED <<relay_pins, arg_chg, arg_dmp, obj, num_relays, board>>

\* line 91 returned: the object is constructed
InitReturn(t) ==
    /\ call[t].pc = "init_end"
    /\ obj' = "ready"
    /\ call' = [call EXCEPT ![t].pc = "done"]
    /\ UNCHANGED <<relay_pins, arg_chg, arg_dmp, num_relays, board,
                   chg_config, dmp_config, null_state, current_state>>

-----------------------------------------------------------------------------
(* close_all / open_all: for relay in self._board *)

\* the board visited from its last relay to its first
BoardOrderReversed(b) == [k \in 1..Cardinality(DOMAIN b) |-> Cardinality(DOMAIN b) - k]

\* the relay indices in the order the iteration over the board visits them
BoardOrder(b) == [k \in 1..Cardinality(DOMAIN b) |-> k - 1]

BulkPcs == {"open_all", "close_all"}

BeginCloseAll(t) ==
    /\ MayCall(t)
    /\ call' = [call EXCEPT ![t] = Enter("close_all", <<>>, 0, "close_all")]
    /\ UNCHANGED <<relay_pins, arg_chg, arg_dmp, obj, num_relays, board,
                   chg_config, dmp_config, null_state, current_state>>

BeginOpenAll(t) ==
    /\ MayCall(t)
    /\ call' = [call EXCEPT ![t] = Enter("open_all", <<>>, 0, "open_all")]
    /\ UNCHANGED <<relay_pins, arg_chg, arg_dmp, obj, num_relays, board,
                   chg_config, dmp_config, null_state, current_state>>

\* one iteration of the loop of close_all (lines 40-41) or open_all (48-49)
BulkStep(t) ==
    /\ call[t].pc \in BulkPcs
    /\ call[t].i < Len(BoardOrder(board))
    /\ LET k == BoardOrder(board)[call[t].i + 1] IN
         IF call[t].pc = "close_all"
         THEN /\ board' = CloseAllWrite(board, k)
              /\ call' = [call EXCEPT ![t].i = @ + 1,
                                      ![t].log = Append(@, <<"close", k>>)]
         ELSE /\ board' = OpenAllWrite(board, k)
              /\ call' = [call EXCEPT ![t].i = @ + 1,
                                      ![t].log = Append(@, <<"open", k>>)]
    /\ UNCHANGED <<relay_pins, arg_chg, arg_dmp, obj, num_relays,
                   chg_config, dmp_config, null_state, current_state>>

\* the loop is exhausted: the method returns (into __init__ on line 16)
BulkReturn(t) ==
    /\ call[t].pc \in BulkPcs
    /\ call[t].i >= Len(BoardOrder(board))
    /\ call' = [call EXCEPT ![t].pc =
                   IF call[t].op = "__init__" THEN "init_validate" ELSE "done"]
    /\ UNCHANGED <<relay_pins, arg_chg, arg_dmp, obj, num_relays, board,
                   chg_config, dmp_config, null_state, current_state>>

-----------------------------------------------------------------------------
(* close / open / get_state called by the user *)

Close(t, relay_num) ==
    /\ MayCall(t)
    /\ LET f == Enter("close", <<>>, relay_num, "done") IN
         IF ~ValidRelayNumber(relay_num, num_relays)
         THEN /\ call' = [call EXCEPT ![t] =
                             [f EXCEPT !.pc = "raised", !.err = "ValueError:range"]]
              /\ board' = board
         ELSE IF ~InBoard(board, relay_num)
         THEN /\ call' = [call EXCEPT ![t] =
                             [f EXCEPT !.pc = "raised", !.err = "IndexError"]]
              /\ board' = board
         ELSE /\ board' = CloseWrite(board, relay_num)
              /\ call' = [call EXCEPT ![t] =
                             [f EXCEPT !.log = <<<<"close", relay_num>>>>]]
    /\ UNCHANGED <<relay_pins, arg_chg, arg_dmp, obj, num_relays,
                   chg_config, dmp_config, null_state, current_state>>

Open(t, relay_num) ==
    /\ MayCall(t)
    /\ LET f == Enter("open", <<>>, relay_num, "done") IN
         IF ~ValidRelayNumber(relay_num, num_relays)
         THEN /\ call' = [call EXCEPT ![t] =
                             [f EXCEPT !.pc = "raised", !.err = "ValueError:range"]]
              /\ board' = board
         ELSE IF ~InBoard(board, relay_num)
         THEN /\ call' = [call EXCEPT ![t] =
                             [f EXCEPT !.pc = "raised", !.err = "IndexError"]]
              /\ board' = board
         ELSE /\ board' = OpenWrite(board, relay_num)
              /\ call' = [call EXCEPT ![t] =
                             [f EXCEPT !.log = <<<<"open", relay_num>>>>]]
    /\ UNCHANGED <<relay_pins, arg_chg, arg_dmp, obj, num_relays,
                   chg_config, dmp_config, null_state, current_state>>

GetState(t, relay_num) ==
    /\ MayCall(t)
    /\ LET f == Enter("get_state", <<>>, relay_num, "done") IN
         IF ~ValidRelayNumber(relay_num, num_relays)
         THEN call' = [call EXCEPT ![t] =
                          [f EXCEPT !.pc = "raised", !.err = "ValueError:range"]]
         ELSE IF ~InBoard(board, relay_num)
         THEN call' = [call EXCEPT ![t] =
                          [f EXCEPT !.pc = "raised", !.err = "IndexError"]]
         ELSE call' = [call EXCEPT ![t] =
                          [f EXCEPT !.ret =
                              IF ReadState(board, relay_num) THEN "True" ELSE "False"]]
    /\ UNCHANGED <<relay_pins, arg_chg, arg_dmp, obj, num_relays, board,
                   chg_config, dmp_config, null_state, current_state>>

-----------------------------------------------------------------------------
(* CapRelay.set_state *)

\* the last two entries of a sequence
LastTwo(q) == IF Len(q) <= 2 THEN q ELSE SubSeq(q, Len(q) - 1, Len(q))

\* the trail of a set_state call entered right after the call of frame prev
TrailAfter(prev) ==
    IF prev.op = "set_state" /\ prev.pc = "done"
    THEN LastTwo(Append(prev.trail, [name |-> Lower(prev.name), relays |-> board]))
    ELSE <<>>

BeginSetState(t, state_name) ==
    /\ MayCall(t)
    /\ call' = [call EXCEPT ![t] =
                   [Enter("set_state", state_name, 0, "ss_lookup")
                        EXCEPT !.trail = TrailAfter(call[t])]]
    /\ UNCHANGED <<relay_pins, arg_chg, arg_dmp, obj, num_relays, board,
                   chg_config, dmp_config, null_state, current_state>>

\* a lookup whose else branch falls back to the null configuration
LookupDefaultNull(state_name, chg, dmp, nul) ==
    IF Lower(state_name) = charge THEN [found |-> TRUE, config |-> chg]
    ELSE IF Lower(state_name) = dump THEN [found |-> TRUE, config |-> dmp]
    ELSE [found |-> TRUE, config |-> nul]

\* lines 102-109: the configuration of a name, found = FALSE for the else branch
Lookup(state_name, chg, dmp, nul) ==
    IF Lower(state_name) = charge THEN [found |-> TRUE, config |-> chg]
    ELSE IF Lower(state_name) = dump THEN [found |-> TRUE, config |-> dmp]
    ELSE IF Lower(state_name) = null THEN [found |-> TRUE, config |-> nul]
    ELSE [found |-> FALSE, config |-> <<>>]

\* a set_state that records the new name before applying the configuration
SetStateLookupEager(t) ==
    /\ call[t].pc = "ss_lookup"
    /\ LET r == Lookup(call[t].name, chg_config, dmp_config, null_state) IN
         IF r.found
         THEN /\ call' = [call EXCEPT ![t].pc = "ss_loop", ![t].config = r.config,
                                      ![t].i = 0]
              /\ obj' = obj
              /\ current_state' = Lower(call[t].name)
         ELSE Raise(t, "ValueError:state") /\ current_state' = current_state
    /\ UNCHANGED <<relay_pins, arg_chg, arg_dmp, num_relays, board,
                   chg_config, dmp_config, null_state>>

SetStateLookup(t) ==
    /\ call[t].pc = "ss_lookup"
    /\ LET r == Lookup(call[t].name, chg_config, dmp_config, null_state) IN
         IF r.found
         THEN /\ call' = [call EXCEPT ![t].pc = "ss_loop", ![t].config = r.config,
                                      ![t].i = 0]
              /\ obj' = obj
         ELSE Raise(t, "ValueError:state")
    /\ UNCHANGED <<relay_pins, arg_chg, arg_dmp, num_relays, board,
                   chg_config, dmp_config, null_state, current_state>>

\* the pairs of enumerate(config) from the last to the first
EnumerateReversed(config) ==
    [k \in 1..Len(config) |-> <<Len(config) - k, config[Len(config) - k + 1]>>]

\* enumerate(config): the (relay_num, should_be_closed) pairs in iteration order
Enumerate(config) == [k \in 1..Len(config) |-> <<k - 1, config[k]>>]

\* one iteration of the loop on lines 112-118
SetStateStep(t) ==
    /\ call[t].pc = "ss_loop"
    /\ call[t].i < Len(Enumerate(call[t].config))
    /\ LET item == Enumerate(call[t].config)[call[t].i + 1]
           relay_num == item[1]
           should_be_closed == item[2]
       IN
         IF should_be_closed = 1
         THEN IF ValidRelayNumber(relay_num, num_relays)
              THEN /\ board' = CloseWrite(board, relay_num)
                   /\ call' = [call EXCEPT ![t].i = @ + 1,
                                  ![t].log = Append(@, <<"close", relay_num>>)]
                   /\ obj' = obj
              ELSE Raise(t, "ValueError:range") /\ board' = board
         ELSE IF should_be_closed = 0
         THEN IF ValidRelayNumber(relay_num, num_relays)
              THEN /\ board' = OpenWrite(board, relay_num)
                   /\ call' = [call EXCEPT ![t].i = @ + 1,
                                  ![t].log = Append(@, <<"open", relay_num>>)]
                   /\ obj' = obj
              ELSE Raise(t, "ValueError:range") /\ board' = board
         ELSE Raise(t, "ValueError:entry") /\ board' = board
    /\ UNCHANGED <<relay_pins, arg_chg, arg_dmp, num_relays,
                   chg_config, dmp_config, null_state, current_state>>

\* a commit that records the name as typed (no .lower() on line 120)
SetStateCommitRaw(t) ==
    /\ call[t].pc = "ss_loop"
    /\ call[t].i >= Len(Enumerate(call[t].config))
    /\ current_state' = call[t].name
    /\ call' = [call EXCEPT ![t].pc =
                   IF call[t].op = "__init__" THEN "init_end" ELSE "done",
                            ![t].ret = "None"]
    /\ UNCHANGED <<relay_pins, arg_chg, arg_dmp, obj, num_relays, board,
                   chg_config, dmp_config, null_state>>

\* line 120, then the return (into __init__ on line 91)
SetStateCommit(t) ==
    /\ call[t].pc = "ss_loop"
    /\ call[t].i >= Len(Enumerate(call[t].config))
    /\ current_state' = Lower(call[t].name)
    /\ call' = [call EXCEPT ![t].pc =
                   IF call[t].op = "__init__" THEN "init_end" ELSE "done",
                            ![t].ret = "None"]
    /\ UNCHANGED <<relay_pins, arg_chg, arg_dmp, obj, num_relays, board,
                   chg_config, dmp_config, null_state>>

-----------------------------------------------------------------------------
(* CapRelay.get_state_info *)

\* The dict display on lines 128-133 evaluates self.current_state and then
\* self.get_state_config(); neither CapRelay nor RelayController defines
\* get_state_config, so the attribute lookup raises AttributeError before any
\* relay is read and before a dict exists.
GetStateInfo(t) ==
    /\ MayCall(t)
    /\ call' = [call EXCEPT ![t] =
                   [Enter("get_state_info", <<>>, 0, "raised")
                        EXCEPT !.err = "AttributeError"]]
    /\ UNCHANGED <<relay_pins, arg_chg, arg_dmp, obj, num_relays, board,
                   chg_config, dmp_config, null_state, current_state>>

-----------------------------------------------------------------------------
(* The hardware: a write of a pin level may raise instead of taking effect *)

\* the running call is about to write a pin level
AboutToWrite(t) ==
    \/ /\ call[t].pc \in BulkPcs
       /\ call[t].i < Len(BoardOrder(board))
    \/ /\ call[t].pc = "ss_loop"
       /\ call[t].i < Len(Enumerate(call[t].config))
       /\ LET item == Enumerate(call[t].config)[call[t].i + 1] IN
            /\ item[2] \in {0, 1}
            /\ ValidRelayNumber(item[1], num_relays)

HardwareFault(t) ==
    /\ AboutToWrite(t)
    /\ Raise(t, "HardwareError")
    /\ UNCHANGED <<relay_pins, arg_chg, arg_dmp, num_relays, board,
                   chg_config, dmp_config, null_state, current_state>>

-----------------------------------------------------------------------------

RelayNumberInputs == (0 - 1)..MaxRelays

Next ==
    \E t \in SeqThreads :
        \/ Construct(t)
        \/ InitBoard(t)
        \/ InitValidate(t)
        \/ InitAssign(t)
        \/ InitReturn(t)
        \/ BeginCloseAll(t)
        \/ BeginOpenAll(t)
        \/ BulkStep(t)
        \/ BulkReturn(t)
        \/ \E n \in RelayNumberInputs : Close(t, n)
        \/ \E n \in RelayNumberInputs : Open(t, n)
        \/ \E n \in RelayNumberInputs : GetState(t, n)
        \/ \E name \in StateNameInputs : BeginSetState(t, name)
        \/ SetStateLookup(t)
        \/ SetStateStep(t)
        \/ SetStateCommit(t)
        \/ GetStateInfo(t)
        \/ HardwareFault(t)

Spec == Init /\ [][Next]_vars

-----------------------------------------------------------------------------
(* Two threads that each call set_state once on the constructed object,    *)
(* either both without serialization or both under an exclusive lock held  *)
(* for the lifetime of the call.                                           *)

ConcEntries == {0, 1}
ConcNameInputs == {charge, dump, null}

InitConc ==
    /\ \E n \in 0..MaxRelays : relay_pins = [k \in 1..n |-> PinOf(k)]
    /\ arg_chg \in SeqsUpTo(ConcEntries, MaxRelays)
    /\ arg_dmp \in SeqsUpTo(ConcEntries, MaxRelays)
    /\ obj = "none"
    /\ num_relays = 0
    /\ board = <<>>
    /\ chg_config = <<>>
    /\ dmp_config = <<>>
    /\ null_state = <<>>
    /\ current_state = Unset
    /\ call = [t \in Threads |-> Idle]

\* thread t has not called set_state yet and is not inside a call
MayCallOnce(t) ==
    /\ obj = "ready"
    /\ Returned(t)
    /\ call[t].op \in {"none", "__init__"}

\* the set_state calls of the other threads entered so far
EnteredBefore(t) == {u \in Threads \ {t} : call[u].op = "set_state"}

\* no serialization: the call is entered whatever the other thread is doing
BeginSetStateUnlocked(t, state_name) ==
    /\ MayCallOnce(t)
    /\ \A u \in EnteredBefore(t) : ~call[u].locked
    /\ call' = [call EXCEPT ![t] =
                   [Enter("set_state", state_name, 0, "ss_lookup")
                        EXCEPT !.seq = Cardinality(EnteredBefore(t))]]
    /\ UNCHANGED <<relay_pins, arg_chg, arg_dmp, obj, num_relays, board,
                   chg_config, dmp_config, null_state, current_state>>

\* the lock is free when no other thread is inside a call it entered locked
LockFree(t) == \A u \in Threads \ {t} : call[u].locked => Returned(u)

\* serialized: the caller acquires the lock, calls, and releases it on return
BeginSetStateLocked(t, state_name) ==
    /\ MayCallOnce(t)
    /\ \A u \in EnteredBefore(t) : call[u].locked
    /\ LockFree(t)
    /\ call' = [call EXCEPT ![t] =
                   [Enter("set_state", state_name, 0, "ss_lookup")
                        EXCEPT !.locked = TRUE,
                               !.seq = Cardinality(EnteredBefore(t))]]
    /\ UNCHANGED <<relay_pins, arg_chg, arg_dmp, obj, num_relays, board,
                   chg_config, dmp_config, null_state, current_state>>

NextConc ==
    \/ \E t \in SeqThreads :
          \/ Construct(t)
          \/ InitBoard(t)
          \/ BulkStep(t)
          \/ BulkReturn(t)
          \/ InitValidate(t)
          \/ InitAssign(t)
          \/ InitReturn(t)
    \/ \E t \in Threads :
          \/ \E name \in ConcNameInputs : BeginSetStateUnlocked(t, name)
          \/ \E name \in ConcNameInputs : BeginSetStateLocked(t, name)
          \/ SetStateLookup(t)
          \/ SetStateStep(t)
          \/ SetStateCommit(t)

SpecConc == InitConc /\ [][NextConc]_vars

-----------------------------------------------------------------------------
(* Observations used by the properties *)

Relays == 0..(num_relays - 1)

\* the board whose LEDs have the listed is_lit values, relay 0 first
Bank(lit) == [k \in 0..(Len(lit) - 1) |-> lit[k + 1]]

\* the configuration vector the object holds for a normalized name
NamedVector(n) ==
    CASE n = charge -> chg_config
      [] n = dump -> dmp_config
      [] n = null -> null_state

DefinedNames == {charge, dump, null}

\* the operation set_state issues for entry v
OpFor(v) == IF v = 1 THEN "close" ELSE "open"

\* set_state returned normally to its caller (the user, or __init__ on line 91)
SetStateSucceeded(t) ==
    \/ call[t].op = "set_state" /\ call[t].pc = "done"
    \/ call[t].op = "__init__" /\ call[t].pc = "init_end"

\* a set_state called by the user raised out of its loop after k iterations
SetStateFailedAt(t, k) ==
    /\ call[t].op = "set_state"
    /\ call[t].pc = "raised"
    /\ call[t].err # "ValueError:state"
    /\ call[t].i = k

-----------------------------------------------------------------------------
(* C1: after a successful set_state(name) on a defined name whose vector is *)
(* V, get_state(i) = (V[i] = 1) for every relay i, whatever ran before.     *)
C1_SetStateAppliesVector ==
    \A t \in Threads :
        SetStateSucceeded(t) =>
            /\ current_state \in DefinedNames
            /\ Len(NamedVector(current_state)) = num_relays
            /\ \A r \in Relays :
                   ReadState(board, r) = (At(NamedVector(current_state), r) = 1)

\* charge = [1,0] applied to a bank that close_all had left at [1,1]
C1_Witness ==
    /\ call[1].op = "set_state" /\ call[1].pc = "done"
    /\ current_state = charge
    /\ chg_config = <<1, 0>>
    /\ call[1].pre_board = Bank(<<FALSE, FALSE>>)
    /\ call[1].pre_state = dump

(* C2: set_state issues its relay operations in ascending index order, one  *)
(* per index (close for 1, open for 0), and exactly N when it succeeds.     *)
C2_AscendingOneOpPerRelay ==
    \A t \in Threads :
        /\ (call[t].pc = "ss_loop" \/ SetStateSucceeded(t) \/ SetStateFailedAt(t, call[t].i)) =>
              /\ call[t].i <= Len(call[t].config)
              /\ call[t].log =
                     [k \in 1..call[t].i |-> <<OpFor(call[t].config[k]), k - 1>>]
        /\ SetStateSucceeded(t) => Len(call[t].log) = num_relays

\* a successful call on two relays that closed relay 0 and then opened relay 1
C2_Witness ==
    /\ call[1].op = "set_state" /\ call[1].pc = "done"
    /\ call[1].log = <<<<"close", 0>>, <<"open", 1>>>>

(* C3: when construction completes, current_state is "null" and every      *)
(* relay reads open.                                                        *)
C3_ConstructedNullAllOpen ==
    \A t \in Threads :
        (call[t].op = "__init__" /\ call[t].pc = "done") =>
            /\ obj = "ready"
            /\ current_state = null
            /\ \A r \in Relays : ReadState(board, r) = FALSE

\* a completed construction of two relays with a charge vector that closes both
C3_Witness ==
    /\ call[1].op = "__init__" /\ call[1].pc = "done"
    /\ num_relays = 2
    /\ chg_config = <<1, 1>>
    /\ dmp_config = <<0, 1>>

(* C4: from the creation of the board's outputs until the caller's first    *)
(* intentional operation, no relay ever reads closed.                       *)
C4_NeverClosedDuringStartup ==
    \A t \in Threads :
        (call[t].op = "__init__" /\ call[t].pc \notin {"init_board", "raised"}) =>
            \A r \in DOMAIN board : ReadState(board, r) = FALSE

(* C5: a set_state that fails at index k raises, keeps current_state at its *)
(* value before the call, leaves relays 0..k-1 at the new target and relays *)
(* k..N-1 at the levels they had before the call.                           *)
C5_FailureKeepsLabelAndPartialState ==
    \A t \in Threads :
        /\ \A k \in 0..MaxRelays :
              SetStateFailedAt(t, k) =>
                 /\ call[t].err # "none"
                 /\ current_state = call[t].pre_state
                 /\ \A r \in Relays :
                        IF r < k
                        THEN ReadState(board, r) = (At(call[t].config, r) = 1)
                        ELSE board[r] = call[t].pre_board[r]
        /\ (call[t].op = "set_state" /\ Returned(t)
              /\ Lower(call[t].name) \in DefinedNames
              /\ Len(call[t].log) < num_relays) =>
                 call[t].pc = "raised"

\* dump = [1,0] failed on its second relay: relay 0 was closed, relay 1 stayed closed
C5_Witness ==
    /\ SetStateFailedAt(1, 1)
    /\ call[1].err = "HardwareError"
    /\ call[1].name = dump
    /\ dmp_config = <<1, 0>>
    /\ call[1].pre_state = charge
    /\ call[1].pre_board = Bank(<<TRUE, FALSE>>)
    /\ board = Bank(<<FALSE, FALSE>>)

(* C6: set_state on a name that is not charge, dump or null after case      *)
(* normalization raises, keeps current_state and issues no relay operation. *)
C6_UnknownNameRejected ==
    \A t \in Threads :
        (call[t].op = "set_state" /\ Returned(t)
           /\ Lower(call[t].name) \notin DefinedNames) =>
            /\ call[t].pc = "raised"
            /\ call[t].err = "ValueError:state"
            /\ current_state = call[t].pre_state
            /\ board = call[t].pre_board
            /\ call[t].log = <<>>

\* "bogus" rejected while the bank holds the charge configuration
C6_Witness ==
    /\ call[1].op = "set_state" /\ call[1].pc = "raised"
    /\ call[1].name = <<"b", "o", "g", "u", "s">>
    /\ current_state = charge
    /\ board = Bank(<<FALSE, TRUE>>)

(* C7: close, open and get_state with an index outside [0,N) raise the      *)
(* range error before touching the board: no relay level changes, no index  *)
(* is clamped or wrapped, and current_state is unchanged.                   *)
C7_OutOfRangeRejectedBeforeHardware ==
    \A t \in Threads :
        (call[t].op \in {"close", "open", "get_state"} /\ Returned(t)
           /\ (call[t].idx < 0 \/ call[t].idx >= num_relays)) =>
            /\ call[t].pc = "raised"
            /\ call[t].err = "ValueError:range"
            /\ board = call[t].pre_board
            /\ current_state = call[t].pre_state
            /\ call[t].log = <<>>
            /\ call[t].ret = "none"

\* close(-1) on two relays whose last relay is open
C7_Witness ==
    /\ call[1].op = "close" /\ call[1].pc = "raised"
    /\ call[1].idx = 0 - 1
    /\ num_relays = 2
    /\ board = Bank(<<FALSE, TRUE>>)

\* open(N) on two closed relays
C7_WitnessUpper ==
    /\ call[1].op = "open" /\ call[1].pc = "raised"
    /\ call[1].idx = num_relays
    /\ board = Bank(<<FALSE, FALSE>>)

(* C8: construction fails whenever the charge or dump vector has an entry   *)
(* outside {0,1}, so no constructed object holds such a vector and          *)
(* set_state on a defined name never fails because of a vector entry.       *)
C8_BadEntryFailsConstruction ==
    /\ obj = "ready" =>
          /\ \A k \in DOMAIN chg_config : chg_config[k] \in {0, 1}
          /\ \A k \in DOMAIN dmp_config : dmp_config[k] \in {0, 1}
    /\ \A t \in Threads : call[t].err # "ValueError:entry"

(* C9: construction fails with the configuration error whenever the charge  *)
(* or dump vector's length differs from N, and every constructed object has *)
(* its charge, dump and null vectors of length exactly N.                   *)
C9_LengthsValidated ==
    /\ obj = "ready" =>
          /\ num_relays = Len(relay_pins)
          /\ Len(chg_config) = num_relays
          /\ Len(dmp_config) = num_relays
          /\ Len(null_state) = num_relays
    /\ \A t \in Threads :
          (call[t].op = "__init__"
             /\ (Len(arg_chg) # Len(relay_pins) \/ Len(arg_dmp) # Len(relay_pins))) =>
              /\ call[t].pc \in {"init_board", "open_all", "init_validate", "raised"}
              /\ call[t].pc = "raised" =>
                     call[t].err \in {"ValueError:config", "HardwareError"}
              /\ current_state = Unset

\* charge and dump agree with each other but not with the two relay pins
C9_Witness ==
    /\ call[1].op = "__init__" /\ call[1].pc = "raised"
    /\ call[1].err = "ValueError:config"
    /\ Len(relay_pins) = 2
    /\ Len(arg_chg) = 1
    /\ Len(arg_dmp) = 1

(* C10: close_all closes every relay in ascending order 0..N-1, so that     *)
(* every relay reads closed afterwards, and leaves current_state alone.     *)
C10_CloseAllAscendingKeepsLabel ==
    \A t \in Threads :
        (call[t].op = "close_all") =>
            /\ call[t].i <= num_relays
            /\ call[t].log = [k \in 1..call[t].i |-> <<"close", k - 1>>]
            /\ current_state = call[t].pre_state
            /\ call[t].pc = "done" =>
                   /\ call[t].i = num_relays
                   /\ \A r \in Relays : ReadState(board, r) = TRUE

\* close_all on two open relays while the label is "null"
C10_Witness ==
    /\ call[1].op = "close_all" /\ call[1].pc = "done"
    /\ call[1].pre_state = null
    /\ call[1].pre_board = Bank(<<TRUE, TRUE>>)
    /\ board = Bank(<<FALSE, FALSE>>)
    /\ current_state = null

(* C11: in every reachable state of a constructed object get_state_info()   *)
(* completes successfully, returning current_state, that state's vector,    *)
(* the relay states freshly read from the bank and the pin list, and        *)
(* changes neither the relay levels nor current_state.                      *)
C11_StateInfoSucceeds ==
    \A t \in Threads :
        (call[t].op = "get_state_info" /\ Returned(t)) =>
            /\ call[t].pc = "done"
            /\ call[t].err = "none"
            /\ board = call[t].pre_board
            /\ current_state = call[t].pre_state

(* C12 as claimed: a successful set_state(name) returns a StateSnapshot     *)
(* (name, vector used, relay states read back, pin list).                   *)
C12_ReturnsSnapshot ==
    \A t \in Threads :
        (call[t].op = "set_state" /\ call[t].pc = "done") =>
            call[t].ret = "StateSnapshot"

(* C12 as amended: a successful set_state(name) returns None; what the      *)
(* snapshot would hold is observable afterwards: current_state is the       *)
(* normalized name, and the relay states read back from the bank equal the  *)
(* configuration vector the call used, one per relay pin.                   *)
C12_ReturnsNoneStateObservable ==
    \A t \in Threads :
        (call[t].op = "set_state" /\ call[t].pc = "done") =>
            /\ call[t].ret = "None"
            /\ current_state = Lower(call[t].name)
            /\ Len(call[t].config) = Len(relay_pins)
            /\ \A k \in 1..Len(relay_pins) :
                   ReadState(board, k - 1) = (call[t].config[k] = 1)

\* set_state("DUMP") with dump = [0,1] returned None on a bank that was all closed
C12_Witness ==
    /\ call[1].op = "set_state" /\ call[1].pc = "done"
    /\ call[1].ret = "None"
    /\ call[1].name = <<"D", "U", "M", "P">>
    /\ call[1].config = <<0, 1>>
    /\ call[1].pre_board = Bank(<<FALSE, FALSE>>)
    /\ board = Bank(<<TRUE, FALSE>>)

(* C13: state-name lookup is case-insensitive: every casing of a defined    *)
(* name selects the same configuration vector and, on success, records the  *)
(* same lower-case current_state.                                           *)
C13_CaseInsensitiveLookup ==
    \A t \in Threads :
        (call[t].op = "set_state" /\ call[t].pc # "ss_lookup") =>
            /\ call[t].name \in {charge, <<"C", "h", "A", "r", "g", "E">>} =>
                   /\ call[t].err # "ValueError:state"
                   /\ call[t].config = chg_config
                   /\ call[t].pc = "done" => current_state = charge
            /\ call[t].name \in {dump, <<"D", "U", "M", "P">>} =>
                   /\ call[t].err # "ValueError:state"
                   /\ call[t].config = dmp_config
                   /\ call[t].pc = "done" => current_state = dump

\* set_state("ChArGe") applied charge = [1,0] and recorded "charge"
C13_Witness ==
    /\ call[1].op = "set_state" /\ call[1].pc = "done"
    /\ call[1].name = <<"C", "h", "A", "r", "g", "E">>
    /\ call[1].config = <<1, 0>>
    /\ call[1].pre_state = null
    /\ current_state = charge
    /\ board = Bank(<<FALSE, TRUE>>)

(* C14: idempotence: set_state(name) called twice in a row on a defined     *)
(* name leaves, after the second call, the relay states the first call      *)
(* left, and current_state is the name after both calls.                    *)
C14_SetStateIdempotent ==
    \A t \in Threads :
        (call[t].op = "set_state" /\ call[t].pc = "done"
           /\ call[t].trail # <<>>
           /\ call[t].trail[Len(call[t].trail)].name = Lower(call[t].name)) =>
            /\ board = call[t].trail[Len(call[t].trail)].relays
            /\ call[t].pre_state = Lower(call[t].name)
            /\ current_state = Lower(call[t].name)

\* charge = [1,0] applied twice in a row, the second time as "ChArGe"
C14_Witness ==
    /\ call[1].op = "set_state" /\ call[1].pc = "done"
    /\ call[1].name = <<"C", "h", "A", "r", "g", "E">>
    /\ call[1].trail = <<[name |-> charge, relays |-> Bank(<<FALSE, TRUE>>)]>>
    /\ board = Bank(<<FALSE, TRUE>>)

(* C15: round trip: set_state("charge"), set_state("null"),                 *)
(* set_state("charge") in a row, from any reachable state, ends with the    *)
(* relay states the first set_state("charge") produced, which are the       *)
(* charge vector, and with current_state "charge".                          *)
C15_ChargeNullChargeRoundTrip ==
    \A t \in Threads :
        (call[t].op = "set_state" /\ call[t].pc = "done"
           /\ Lower(call[t].name) = charge
           /\ Len(call[t].trail) = 2
           /\ call[t].trail[1].name = charge
           /\ call[t].trail[2].name = null) =>
            /\ board = call[t].trail[1].relays
            /\ current_state = charge
            /\ \A r \in Relays : ReadState(board, r) = (At(chg_config, r) = 1)

\* charge = [0,1]: charge, then null (all open), then charge again
C15_Witness ==
    /\ call[1].op = "set_state" /\ call[1].pc = "done"
    /\ call[1].name = charge
    /\ call[1].trail = <<[name |-> charge, relays |-> Bank(<<TRUE, FALSE>>)],
                         [name |-> null, relays |-> Bank(<<TRUE, TRUE>>)]>>
    /\ board = Bank(<<TRUE, FALSE>>)

(* C16: relays are independently addressable: close(i) on a valid i makes   *)
(* get_state(i) true, open(i) makes it false, both leave every other relay  *)
(* and current_state as they were; get_state(i) changes nothing.            *)
C16_IndependentlyAddressable ==
    \A t \in Threads :
        /\ (call[t].op \in {"close", "open"} /\ call[t].pc = "done") =>
              /\ call[t].idx \in Relays
              /\ ReadState(board, call[t].idx) = (call[t].op = "close")
              /\ \A j \in Relays \ {call[t].idx} : board[j] = call[t].pre_board[j]
              /\ current_state = call[t].pre_state
        /\ (call[t].op = "get_state" /\ Returned(t)) =>
              /\ board = call[t].pre_board
              /\ current_state = call[t].pre_state
              /\ call[t].pc = "done" =>
                     (call[t].ret = "True") = ReadState(board, call[t].idx)

\* close(1) on two open relays closes relay 1 only
C16_Witness ==
    /\ call[1].op = "close" /\ call[1].pc = "done"
    /\ call[1].idx = 1
    /\ call[1].pre_board = Bank(<<TRUE, TRUE>>)
    /\ board = Bank(<<TRUE, FALSE>>)
    /\ current_state = null

\* thread t's set_state returned normally and left the relays at its vector
ConcDone(t) == call[t].op = "set_state" /\ call[t].pc = "done"
HoldsVectorOf(t) ==
    \A r \in Relays : ReadState(board, r) = (At(call[t].config, r) = 1)

(* C17: two unserialized concurrent set_state calls for different states    *)
(* can both return successfully with the relays at neither call's vector    *)
(* while current_state names one of them (C17_Witness); when each call runs *)
(* to completion under an exclusive lock, the relays end at the vector of   *)
(* the call that ran last and current_state names that call's state.        *)
C17_SerializedLastCallWins ==
    \A t \in Threads : \A u \in Threads \ {t} :
        (ConcDone(t) /\ ConcDone(u) /\ call[t].locked /\ call[u].locked
           /\ call[t].seq < call[u].seq) =>
            /\ HoldsVectorOf(u)
            /\ current_state = Lower(call[u].name)
            /\ call[u].pre_state = Lower(call[t].name)

\* charge = [1,0] and dump = [0,1] interleaved without a lock: both returned,
\* the relays hold neither vector, current_state names one of the two
C17_Witness ==
    /\ ConcDone(1) /\ ConcDone(2)
    /\ ~call[1].locked /\ ~call[2].locked
    /\ call[1].name = charge /\ call[2].name = dump
    /\ chg_config = <<1, 0>> /\ dmp_config = <<0, 1>>
    /\ ~HoldsVectorOf(1)
    /\ ~HoldsVectorOf(2)
    /\ current_state \in {charge, dump}

\* this step is the last one of a set_state by t whose N operations all succeeded
CommitsAfterAllOps(t) ==
    /\ call[t].op = "set_state"
    /\ call[t].pc = "ss_loop"
    /\ call[t].i = num_relays
    /\ Len(call[t].log) = num_relays
    /\ call'[t].pc = "done"

(* C18: in every state of a constructed object, whatever calls succeeded or *)
(* failed before, current_state is "null", "charge" or "dump" in lower      *)
(* case, and it changes only in the last step of a set_state call whose N   *)
(* per-relay operations all succeeded.                                      *)
C18_LabelDefinedChangedOnlyByCommit ==
    /\ [](obj = "ready" => current_state \in {null, charge, dump})
    /\ [][(obj = "ready" /\ current_state' # current_state) =>
              \E t \in Threads : CommitsAfterAllOps(t)]_vars

\* set_state("ChArGe") failed on its second relay: the label is still "dump"
C18_Witness ==
    /\ SetStateFailedAt(1, 1)
    /\ call[1].name = <<"C", "h", "A", "r", "g", "E">>
    /\ num_relays = 2
    /\ current_state = dump
    /\ obj = "ready"

(* C19: a construction that fails its vector-length validation raises only  *)
(* after the board exists and open_all has opened every relay: it has       *)
(* issued one open per relay and no close, and never sets current_state.    *)
C19_LengthFailureAfterOpenAll ==
    \A t \in Threads :
        (call[t].op = "__init__" /\ call[t].pc = "raised"
           /\ call[t].err = "ValueError:config") =>
            /\ obj = "failed"
            /\ num_relays = Len(relay_pins)
            /\ DOMAIN board = 0..(Len(relay_pins) - 1)
            /\ \A r \in DOMAIN board : ReadState(board, r) = FALSE
            /\ call[t].log = [k \in 1..Len(relay_pins) |-> <<"open", k - 1>>]
            /\ current_state = Unset
            /\ chg_config = <<>> /\ dmp_config = <<>> /\ null_state = <<>>

\* CapRelay([22,23], [1,1], [0]): both relays opened, then the ValueError of line 81
C19_Witness ==
    /\ call[1].op = "__init__" /\ call[1].pc = "raised"
    /\ call[1].err = "ValueError:config"
    /\ Len(relay_pins) = 2
    /\ arg_chg = <<1, 1>>
    /\ arg_dmp = <<0>>
    /\ board = Bank(<<TRUE, TRUE>>)

====
